---------------------------- MODULE Spec2Model ----------------------------
(***************************************************************************)
(* Model of app.py: a Streamlit form that creates Patient resources on a   *)
(* FHIR server and looks them up by MRN.                                    *)
(*                                                                         *)
(* Text is modelled as a sequence of one-character strings whenever the    *)
(* code slices, formats or parses it (MRNs, ISO dates, search tokens);     *)
(* names and messages the code only passes along are TLA+ strings.         *)
(* Python's None is the empty sequence <<>>.                               *)
(***************************************************************************)
EXTENDS Integers, Sequences, FiniteSets, TLC

VARIABLES
    store,   \* the server's Patient resources, in the order they were stored
    today,   \* the current date, [y, m, d]
    created, \* what the latest create_and_post_patient call submitted and returned
    last,    \* the latest operation: its name, inputs and the server's disposition
    ui,      \* what the latest operation rendered: [error, success, json]
    reqs,    \* the requests the latest operation sent to the server, in order
    raised   \* the exception the latest operation let escape, "" when none

vars == <<store, today, created, last, ui, reqs, raised>>

None == <<>>

-----------------------------------------------------------------------------
(* Bounds of the model.                                                    *)

\* the server holds at most MaxStore Patient resources
MaxStore == 2
\* the 16-bit words a random UUID is drawn from: k * 0x5555 mod 2^16, k in 0..MaxWordStep
MaxWordStep == 3

-----------------------------------------------------------------------------
(* Characters and decimal text.                                            *)

Digits == <<"0", "1", "2", "3", "4", "5", "6", "7", "8", "9">>

DigitChar(n) == Digits[n + 1]

IsDigit(c) == \E n \in 0..9 : Digits[n + 1] = c

DigitValue(c) == CHOOSE n \in 0..9 : Digits[n + 1] = c

Min(a, b) == IF a < b THEN a ELSE b

\* Python's s[:n]
Take(s, n) == SubSeq(s, 1, Min(n, Len(s)))

\* the value of a run of decimal digits
RECURSIVE DecValue(_)
DecValue(s) ==
    IF s = <<>> THEN 0
    ELSE 10 * DecValue(SubSeq(s, 1, Len(s) - 1)) + DigitValue(s[Len(s)])

\* n written with at least w digits, zero padded (the %Y, %m, %d of strftime)
RECURSIVE Padded(_, _)
Padded(n, w) ==
    IF w <= 1 /\ n < 10 THEN <<DigitChar(n)>>
    ELSE Append(Padded(n \div 10, w - 1), DigitChar(n % 10))

-----------------------------------------------------------------------------
(* generate_mrn: str(uuid.uuid4().int)[:9].  A 128-bit integer is eight    *)
(* 16-bit words, most significant first.                                   *)

WordBase == 65536

MrnLen == 9

WordSamples == { (k * 21845) % WordBase : k \in 0..MaxWordStep }

\* the 128 random bits uuid4 starts from
RandomInts ==
    { <<a, b, b, c, c, b, b, d>> : a \in WordSamples, b \in WordSamples,
                                   c \in WordSamples, d \in WordSamples }

\* uuid4 sets the version (bits 76-79 = 4) and the variant (bits 62-63 = 10)
uuid4(random) ==
    [random EXCEPT ![4] = (@ % 4096) + 16384, ![5] = (@ % 16384) + 32768]

IsZero(words) == \A i \in 1..Len(words) : words[i] = 0

\* long division of the words from position i on by DecBase, with carry rem
DecBase == 10000

RECURSIVE LongDiv(_, _, _, _)
LongDiv(words, i, rem, acc) ==
    IF i > Len(words) THEN [q |-> acc, r |-> rem]
    ELSE LET cur == rem * WordBase + words[i]
         IN  LongDiv(words, i + 1, cur % DecBase, Append(acc, cur \div DecBase))

\* the decimal digits, four at a time from the right; the leading group is
\* not padded
RECURSIVE DecDigits(_)
DecDigits(words) ==
    LET dm == LongDiv(words, 1, 0, <<>>)
    IN  IF IsZero(dm.q) THEN Padded(dm.r, 1)
        ELSE DecDigits(dm.q) \o Padded(dm.r, 4)

\* str() of a non-negative integer
IntStr(words) == DecDigits(words)

\* [:8] in place of [:9]
generate_mrn_short(random) == Take(IntStr(uuid4(random)), MrnLen - 1)

generate_mrn(random) == Take(IntStr(uuid4(random)), MrnLen)

-----------------------------------------------------------------------------
(* Dates: date objects are [y, m, d]; ISO strings are character sequences. *)

MinYear == 1900

IsLeap(y) == (y % 4 = 0 /\ y % 100 # 0) \/ y % 400 = 0

DaysIn(y, m) ==
    IF m = 2 THEN (IF IsLeap(y) THEN 29 ELSE 28)
    ELSE IF m \in {4, 6, 9, 11} THEN 30 ELSE 31

IsDate(y, m, d) == m \in 1..12 /\ d >= 1 /\ d <= DaysIn(y, m)

MkDate(y, m, d) == [y |-> y, m |-> m, d |-> d]

\* date <= date
DateLeq(a, b) ==
    \/ a.y < b.y
    \/ a.y = b.y /\ a.m < b.m
    \/ a.y = b.y /\ a.m = b.m /\ a.d <= b.d

\* date.strftime("%Y-%m-%d")
strftime(dt) == Padded(dt.y, 4) \o <<"-">> \o Padded(dt.m, 2) \o <<"-">> \o Padded(dt.d, 2)

AllDigits(s) == \A i \in 1..Len(s) : IsDigit(s[i])

\* datetime.strptime(s, "%Y-%m-%d"): the date, or None for the ValueError
strptime(s) ==
    IF /\ Len(s) = 10
       /\ s[5] = "-" /\ s[8] = "-"
       /\ AllDigits(SubSeq(s, 1, 4)) /\ AllDigits(SubSeq(s, 6, 7)) /\ AllDigits(SubSeq(s, 9, 10))
       /\ IsDate(DecValue(SubSeq(s, 1, 4)), DecValue(SubSeq(s, 6, 7)), DecValue(SubSeq(s, 9, 10)))
    THEN MkDate(DecValue(SubSeq(s, 1, 4)), DecValue(SubSeq(s, 6, 7)), DecValue(SubSeq(s, 9, 10)))
    ELSE None

\* (a1, a2) < (b1, b2) on Python tuples
TupleLess(a1, a2, b1, b2) == a1 < b1 \/ (a1 = b1 /\ a2 < b2)

BoolInt(b) == IF b THEN 1 ELSE 0

\* <= in place of <: the birthday itself not yet counted
age_birthday_late(now, birthdate) ==
    LET b == strptime(birthdate)
    IN  IF b = None THEN [raised |-> "ValueError", age |-> 0]
        ELSE [raised |-> "",
              age |-> now.y - b.y
                      - BoolInt(TupleLess(now.m, now.d, b.m, b.d) \/ (now.m = b.m /\ now.d = b.d))]

\* calculate_age(birthdate) when datetime.today() is now: the age, or the
\* ValueError strptime raises
calculate_age(now, birthdate) ==
    LET b == strptime(birthdate)
    IN  IF b = None THEN [raised |-> "ValueError", age |-> 0]
        ELSE [raised |-> "",
              age |-> now.y - b.y - BoolInt(TupleLess(now.m, now.d, b.m, b.d))]

-----------------------------------------------------------------------------
(* The FHIR server, seen through patient.create and search.perform_resources. *)

System == "http://fhir.openclintech.com/r4"

BaseUri == "http://hapi.fhir.org/baseR4"

\* f"{system}|{mrn}"
SearchToken(system, mrn) == <<system, "|">> \o mrn

\* the server splits a token at its first "|"
PipeAt(token) ==
    CHOOSE i \in 1..Len(token) : token[i] = "|" /\ \A j \in 1..(i - 1) : token[j] # "|"

TokenSystem(token) == SubSeq(token, 1, PipeAt(token) - 1)

TokenValue(token) == SubSeq(token, PipeAt(token) + 1, Len(token))

Matches(resource, token) ==
    \E i \in 1..Len(resource.identifier) :
        /\ <<resource.identifier[i].system>> = TokenSystem(token)
        /\ resource.identifier[i].value = TokenValue(token)

\* the ids of the stored resources the token matches, in stored order
RECURSIVE MatchIds(_, _, _)
MatchIds(st, token, i) ==
    IF i > Len(st) THEN <<>>
    ELSE (IF Matches(st[i], token) THEN <<i>> ELSE <<>>) \o MatchIds(st, token, i + 1)

\* s without its k-th element
Without(s, k) == SubSeq(s, 1, k - 1) \o SubSeq(s, k + 1, Len(s))

\* The ids of a search response.  The search sets no _sort, so the order is
\* the server's: k is the match it lists first.
SearchResponse(st, token, k) ==
    LET ids == MatchIds(st, token, 1)
    IN  IF ids = <<>> THEN <<>> ELSE <<ids[k]>> \o Without(ids, k)

FirstChoices(st, token) ==
    LET n == Len(MatchIds(st, token, 1)) IN IF n = 0 THEN {1} ELSE 1..n

\* the Patient resource built at lines 28-49
PatientResource(mrn, first_name, last_name, birthdate) ==
    [identifier |-> <<[system |-> System, value |-> mrn]>>,
     name       |-> <<[family |-> last_name, given |-> <<first_name>>]>>,
     birthDate  |-> birthdate]

\* the server stores a resource under the next id
Stored(st, resource) ==
    Append(st, [id         |-> Len(st) + 1,
                identifier |-> resource.identifier,
                name       |-> resource.name,
                birthDate  |-> resource.birthDate])

\* What the server does with a POST: "ok" stores and answers with the
\* resource, "empty" stores and answers with an empty body (create returns
\* None), "error" makes the call raise.
CreateDisps == {"ok", "empty", "error"}

\* A search is answered ("ok") or the call raises ("error").
SearchDisps == {"ok", "error"}

-----------------------------------------------------------------------------
(* The gateway functions.  Each returns what it changes: the store, the    *)
(* requests sent, the value returned, what is rendered, the exception that *)
(* escapes.                                                                *)

NoUi == [error |-> "", success |-> "", json |-> <<>>]

\* the body of lines 28-60 without the try
create_uncaught(st, mrn, disp, first_name, last_name, birthdate) ==
    LET patient == PatientResource(mrn, first_name, last_name, birthdate)
    IN  [store  |-> IF disp = "error" THEN st ELSE Stored(st, patient),
         reqs   |-> <<[kind |-> "create", mrn |-> mrn]>>,
         ret    |-> IF disp = "ok" THEN <<mrn, Len(st) + 1>> ELSE None,
         raised |-> IF disp = "error" THEN "ServerError" ELSE ""]

\* mrn is what generate_mrn() returned at line 24
create_and_post_patient(st, mrn, disp, first_name, last_name, birthdate) ==
    LET patient == PatientResource(mrn, first_name, last_name, birthdate)
    IN  [store  |-> IF disp = "error" THEN st ELSE Stored(st, patient),
         reqs   |-> <<[kind |-> "create", mrn |-> mrn]>>,
         \* result truthy: (mrn, patient.id); falsy or except: None
         ret    |-> IF disp = "ok" THEN <<mrn, Len(st) + 1>> ELSE None,
         raised |-> ""]

NotProvided == "Not provided"

\* the st.json summary of lines 84-106
Summary(patient, mrn, now) ==
    [MRN         |-> mrn,
     RecordID    |-> patient.id,
     FirstName   |-> IF patient.name # <<>> /\ patient.name[1].given # <<>>
                     THEN patient.name[1].given[1] ELSE NotProvided,
     LastName    |-> IF patient.name # <<>> /\ patient.name[1].family # ""
                     THEN patient.name[1].family ELSE NotProvided,
     DateOfBirth |-> IF patient.birthDate # None THEN patient.birthDate ELSE <<NotProvided>>,
     Age         |-> IF patient.birthDate # None
                     THEN calculate_age(now, patient.birthDate).age ELSE NotProvided,
     FullURL     |-> <<BaseUri, "/Patient/", patient.id>>]

\* patients[0] read without the test of line 82
verify_unguarded(st, now, disp, k, mrn, system) ==
    LET token == SearchToken(system, mrn)
        patients == SearchResponse(st, token, k)
        sent == <<[kind |-> "search", token |-> token]>>
    IN  IF disp = "error"
        THEN [ui |-> NoUi, reqs |-> sent, raised |-> "ServerError", found |-> <<>>]
        ELSE IF patients # <<>>
        THEN [ui |-> [error |-> "", success |-> "Verification successful. Found Patient:",
                      json |-> <<Summary(st[patients[1]], mrn, now)>>],
              reqs |-> sent, raised |-> "", found |-> patients]
        ELSE [ui |-> NoUi, reqs |-> sent, raised |-> "IndexError", found |-> patients]

\* patients[-1] in place of patients[0]
verify_last_match(st, now, disp, k, mrn, system) ==
    LET token == SearchToken(system, mrn)
        patients == SearchResponse(st, token, k)
        sent == <<[kind |-> "search", token |-> token]>>
    IN  IF disp = "error"
        THEN [ui |-> NoUi, reqs |-> sent, raised |-> "ServerError", found |-> <<>>]
        ELSE IF patients # <<>>
        THEN [ui |-> [error |-> "", success |-> "Verification successful. Found Patient:",
                      json |-> <<Summary(st[patients[Len(patients)]], mrn, now)>>],
              reqs |-> sent, raised |-> "", found |-> patients]
        ELSE [ui |-> [error |-> "Verification failed. No patient found with the given MRN.",
                      success |-> "", json |-> <<>>],
              reqs |-> sent, raised |-> "", found |-> patients]

verify_patient_creation(st, now, disp, k, mrn, system) ==
    LET token == SearchToken(system, mrn)
        patients == SearchResponse(st, token, k)
        sent == <<[kind |-> "search", token |-> token]>>
    IN  IF disp = "error"
        THEN \* perform_resources raises and nothing catches it
             [ui |-> NoUi, reqs |-> sent, raised |-> "ServerError", found |-> <<>>]
        ELSE IF patients # <<>>
        THEN LET patient == st[patients[1]]
                 age == IF patient.birthDate # None
                        THEN calculate_age(now, patient.birthDate)
                        ELSE [raised |-> "", age |-> 0]
             IN  IF age.raised # ""
                 THEN [ui |-> NoUi, reqs |-> sent, raised |-> age.raised, found |-> patients]
                 ELSE [ui |-> [error |-> "",
                               success |-> "Verification successful. Found Patient:",
                               json |-> <<Summary(patient, mrn, now)>>],
                       reqs |-> sent, raised |-> "", found |-> patients]
        ELSE [ui |-> [error |-> "Verification failed. No patient found with the given MRN.",
                      success |-> "", json |-> <<>>],
              reqs |-> sent, raised |-> "", found |-> patients]

-----------------------------------------------------------------------------
(* Inputs.                                                                 *)

Todays == {MkDate(2024, 6, 14), MkDate(2024, 6, 15)}

\* what st.date_input can return: a date from 1900-01-01 to today
WidgetDates(now) ==
    {dt \in {MkDate(2000, 6, 15), MkDate(2024, 6, 15)} :
        DateLeq(MkDate(MinYear, 1, 1), dt) /\ DateLeq(dt, now)}

FirstNames == {"", "Ada"}
LastNames == {"", "Lee"}

\* (first name, last name, birthdate string) passed to create_and_post_patient
CreateInputs ==
    {<<"Ada", "Lee", strftime(MkDate(2000, 6, 15))>>,
     <<"Bob", "Roe", strftime(MkDate(2024, 6, 14))>>}

\* the random bits uuid4 draws during a create; the first two differ only in
\* their lowest word and give the same MRN
CreateRandoms ==
    {<<0, 0, 0, 0, 0, 0, 0, 0>>,
     <<0, 0, 0, 0, 0, 0, 0, 65535>>,
     <<21845, 0, 0, 0, 0, 0, 0, 0>>}

\* what generate_mrn() returns for them
Mrns == {generate_mrn(r) : r \in CreateRandoms}

MrnA == generate_mrn(<<0, 0, 0, 0, 0, 0, 0, 0>>)
MrnB == generate_mrn(<<21845, 0, 0, 0, 0, 0, 0, 0>>)

\* MRN text: the generated ones, one nobody has, one holding a "|"
MrnInputs == Mrns \cup {<<"0", "0", "0", "0", "0", "0", "0", "0", "7">>, <<"1", "|", "2">>}

\* resources other clients of the server store: without a name and a birth
\* date, with a family name only, under another identifier system, and a
\* full one
OtherSystem == "urn:example:other"

OtherResources ==
    {[identifier |-> <<[system |-> System, value |-> MrnA]>>,
      name |-> <<>>, birthDate |-> None],
     [identifier |-> <<[system |-> System, value |-> MrnA]>>,
      name |-> <<[family |-> "Poe", given |-> <<>>]>>,
      birthDate |-> strftime(MkDate(2000, 6, 15))],
     [identifier |-> <<[system |-> OtherSystem, value |-> MrnB]>>,
      name |-> <<[family |-> "", given |-> <<"Eve">>]>>,
      birthDate |-> None],
     [identifier |-> <<[system |-> System, value |-> MrnB]>>,
      name |-> <<[family |-> "Kay", given |-> <<"Eve", "Ann">>]>>,
      birthDate |-> strftime(MkDate(2024, 6, 15))]}

-----------------------------------------------------------------------------
(* app(): one run of the script per button press.                          *)

\* the names bound when line 126 runs: the module's globals and app's locals
AppNames ==
    {"st", "client", "p", "datetime", "date", "uuid",
     "initialize_fhir_client", "generate_mrn", "create_and_post_patient",
     "print_details", "calculate_age", "verify_patient_creation", "app",
     "fhir_client", "system", "action", "first_name", "last_name", "birthdate"}

\* "or" in place of "and"
FilledAny(first_name, last_name) == first_name # "" \/ last_name # ""

\* line 125; a date object is always truthy
Filled(first_name, last_name) == first_name # "" /\ last_name # ""

\* 'Create New Patient', button 'Create Patient' pressed
AppCreatePatient ==
    \E first_name \in FirstNames, last_name \in LastNames, birthdate \in WidgetDates(today),
       cdisp \in CreateDisps :
      /\ cdisp = "error" \/ Len(store) < MaxStore
      /\ last' = [op |-> "app_create", first_name |-> first_name, last_name |-> last_name,
                  birthdate |-> birthdate, create |-> cdisp]
      /\ UNCHANGED <<today, created>>
      /\ IF Filled(first_name, last_name)
         THEN IF "birthdate_input" \notin AppNames
              THEN \* line 126: NameError
                   /\ raised' = "NameError"
                   /\ ui' = NoUi
                   /\ reqs' = <<>>
                   /\ UNCHANGED store
              ELSE \E mrn \in Mrns :
                     LET c == create_and_post_patient(store, mrn, cdisp, first_name,
                                                      last_name, strftime(birthdate))
                     IN  IF c.ret = None
                         THEN \* line 127: None does not unpack
                              /\ raised' = "TypeError"
                              /\ ui' = NoUi
                              /\ reqs' = c.reqs
                              /\ store' = c.store
                         ELSE \E sdisp \in SearchDisps,
                                 k \in FirstChoices(c.store, SearchToken(System, c.ret[1])) :
                                LET v == verify_patient_creation(c.store, today, sdisp, k,
                                                                 c.ret[1], System)
                                IN  /\ raised' = v.raised
                                    /\ ui' = v.ui
                                    /\ reqs' = c.reqs \o v.reqs
                                    /\ store' = c.store
         ELSE /\ raised' = ""
              /\ ui' = [error |-> "Please fill out all the fields.", success |-> "",
                        json |-> <<>>]
              /\ reqs' = <<>>
              /\ UNCHANGED store

\* 'View Existing Patient', button 'Search' pressed
AppSearch ==
    \E search_mrn \in MrnInputs \cup {<<>>}, sdisp \in SearchDisps :
      /\ UNCHANGED <<store, today, created>>
      /\ IF search_mrn # <<>>
         THEN \E k \in FirstChoices(store, SearchToken(System, search_mrn)) :
                LET v == verify_patient_creation(store, today, sdisp, k, search_mrn, System)
                IN  /\ last' = [op |-> "app_search", mrn |-> search_mrn, system |-> System,
                                search |-> sdisp, found |-> v.found]
                    /\ raised' = v.raised
                    /\ ui' = v.ui
                    /\ reqs' = v.reqs
         ELSE /\ last' = [op |-> "app_search", mrn |-> search_mrn, system |-> System,
                          search |-> sdisp, found |-> <<>>]
              /\ raised' = ""
              /\ ui' = [error |-> "Please enter an MRN.", success |-> "", json |-> <<>>]
              /\ reqs' = <<>>

\* a run with no button pressed renders the form only
AppRerun ==
    /\ last' = [op |-> "app_rerun"]
    /\ ui' = NoUi
    /\ reqs' = <<>>
    /\ raised' = ""
    /\ UNCHANGED <<store, today, created>>

-----------------------------------------------------------------------------
(* The gateway functions called on their own.                              *)

CallCreate ==
    \E input \in CreateInputs, mrn \in Mrns, disp \in CreateDisps :
      /\ disp = "error" \/ Len(store) < MaxStore
      /\ LET c == create_and_post_patient(store, mrn, disp, input[1], input[2], input[3])
         IN  /\ store' = c.store
             /\ reqs' = c.reqs
             /\ raised' = c.raised
             /\ last' = [op |-> "create", mrn |-> mrn, create |-> disp, ret |-> c.ret]
             /\ created' = IF c.ret = None THEN None
                           ELSE [first_name |-> input[1], last_name |-> input[2],
                                 birthdate |-> input[3], ret |-> c.ret]
      /\ ui' = NoUi
      /\ UNCHANGED today

CallVerify ==
    \E mrn \in MrnInputs, sdisp \in SearchDisps :
      \E k \in FirstChoices(store, SearchToken(System, mrn)) :
        LET v == verify_patient_creation(store, today, sdisp, k, mrn, System)
        IN  /\ last' = [op |-> "verify", mrn |-> mrn, system |-> System,
                        search |-> sdisp, found |-> v.found]
            /\ ui' = v.ui
            /\ reqs' = v.reqs
            /\ raised' = v.raised
            /\ UNCHANGED <<store, today, created>>

\* another client of the server stores a Patient
OtherClientPost ==
    \E resource \in OtherResources :
      /\ Len(store) < MaxStore
      /\ store' = Stored(store, resource)
      /\ UNCHANGED <<today, created, last, ui, reqs, raised>>

\* the program as its user drives it
Init ==
    /\ store = <<>>
    /\ today \in Todays
    /\ created = None
    /\ last = [op |-> "start"]
    /\ ui = NoUi
    /\ reqs = <<>>
    /\ raised = ""

Next ==
    \/ AppCreatePatient
    \/ AppSearch
    \/ AppRerun
    \/ OtherClientPost

Spec == Init /\ [][Next]_vars

\* the gateway functions as a caller drives them
InitGateway ==
    /\ store = <<>>
    /\ today = MkDate(2024, 6, 15)
    /\ created = None
    /\ last = [op |-> "start"]
    /\ ui = NoUi
    /\ reqs = <<>>
    /\ raised = ""

NextGateway ==
    \/ CallCreate
    \/ CallVerify
    \/ OtherClientPost

SpecGateway == InitGateway /\ [][NextGateway]_vars

-----------------------------------------------------------------------------
(* generate_mrn on its own.                                                *)

InitMrn ==
    /\ store = <<>>
    /\ today = MkDate(2024, 6, 15)
    /\ created = None
    /\ last \in {[op |-> "uuid4", random |-> random] : random \in RandomInts}
    /\ ui = NoUi
    /\ reqs = <<>>
    /\ raised = ""

CallGenerateMrn ==
    /\ last.op = "uuid4"
    /\ last' = [op |-> "generate_mrn", random |-> last.random,
                result |-> generate_mrn(last.random)]
    /\ UNCHANGED <<store, today, created, ui, reqs, raised>>

NextMrn == CallGenerateMrn

SpecMrn == InitMrn /\ [][NextMrn]_vars

-----------------------------------------------------------------------------
(* calculate_age on its own.                                               *)

AgeDates(years) ==
    {MkDate(y, m, d) : y \in years, m \in {2, 6, 12}, d \in {14, 15, 29}}

AgeTodays == {dt \in AgeDates({2023, 2024}) : IsDate(dt.y, dt.m, dt.d)}

\* birthdate strings, and a partial date that strptime rejects
AgeBirthdates ==
    {strftime(dt) : dt \in {b \in AgeDates({MinYear, 2000, 2023, 2024}) : IsDate(b.y, b.m, b.d)}}
        \cup {<<"2", "0", "0", "0">>}

InitAge ==
    /\ store = <<>>
    /\ today \in AgeTodays
    /\ created = None
    /\ last \in {[op |-> "input", birthdate |-> birthdate] : birthdate \in AgeBirthdates}
    /\ ui = NoUi
    /\ reqs = <<>>
    /\ raised = ""

CallCalculateAge ==
    /\ last.op = "input"
    /\ LET r == calculate_age(today, last.birthdate)
       IN  /\ last' = [op |-> "calculate_age", birthdate |-> last.birthdate, age |-> r.age]
           /\ raised' = r.raised
    /\ UNCHANGED <<store, today, created, ui, reqs>>

NextAge == CallCalculateAge

SpecAge == InitAge /\ [][NextAge]_vars

-----------------------------------------------------------------------------
(* Properties.                                                             *)

HasIdentifier(resource, system, mrn) ==
    \E i \in 1..Len(resource.identifier) :
        resource.identifier[i].system = system /\ resource.identifier[i].value = mrn

Holds(st, system, mrn) == \E i \in 1..Len(st) : HasIdentifier(st[i], system, mrn)

FilledOutMsg == "Please fill out all the fields."
NotFoundMsg == "Verification failed. No patient found with the given MRN."
FoundMsg == "Verification successful. Found Patient:"

\* C1: after create_and_post_patient has returned (mrn, id), a lookup of that
\* mrn under the fixed system that the server answers takes the success path
\* and shows the first name, last name and birth date that were submitted,
\* whatever else the server holds.
C1_CreateThenLookupRoundTrip ==
    (/\ last.op = "verify"
     /\ created # None
     /\ last.mrn = created.ret[1]
     /\ last.system = System
     /\ last.search = "ok")
    => /\ raised = ""
       /\ ui.success = FoundMsg
       /\ Len(ui.json) = 1
       /\ ui.json[1].FirstName = created.first_name
       /\ ui.json[1].LastName = created.last_name
       /\ ui.json[1].DateOfBirth = created.birthdate

\* C2: 'Create Patient' pressed with the first or the last name empty shows
\* "Please fill out all the fields." and sends no request to the server.
C2_EmptyFieldBlocksSubmission ==
    (last.op = "app_create" /\ (last.first_name = "" \/ last.last_name = ""))
    => /\ ui.error = FilledOutMsg
       /\ ui.success = ""
       /\ ui.json = <<>>
       /\ reqs = <<>>
       /\ raised = ""

C2_Witness ==
    /\ last.op = "app_create"
    /\ last.first_name = ""
    /\ last.last_name = "Lee"
    /\ ui.error = FilledOutMsg
    /\ reqs = <<>>

\* C3: 'Create Patient' pressed with every field filled sends a create
\* request first and, once the server has accepted it, a search request for
\* the MRN generated for that patient, whose answer is rendered.
C3_CreateThenVerify ==
    (last.op = "app_create" /\ last.first_name # "" /\ last.last_name # "")
    => /\ Len(reqs) >= 1
       /\ reqs[1].kind = "create"
       /\ last.create = "ok"
            => /\ Len(reqs) = 2
               /\ reqs[2].kind = "search"
               /\ reqs[2].token = SearchToken(System, reqs[1].mrn)
               /\ (raised = "" => ui # NoUi)

\* C4: a lookup the server answers, of an MRN that no stored Patient carries
\* under the fixed identifier system, ends in the error banner: no exception
\* and no summary.
C4_NoMatchTakesFailurePath ==
    (/\ last.op = "verify"
     /\ last.system = System
     /\ last.search = "ok"
     /\ ~Holds(store, System, last.mrn))
    => /\ raised = ""
       /\ ui.error = NotFoundMsg
       /\ ui.success = ""
       /\ ui.json = <<>>

\* the server holds the searched value, but under another identifier system
C4_Witness ==
    /\ last.op = "verify"
    /\ last.search = "ok"
    /\ ~Holds(store, System, last.mrn)
    /\ Holds(store, OtherSystem, last.mrn)
    /\ ui.error = NotFoundMsg

\* C5: no exception raised by a call to the server escapes the function that
\* makes the call.
C5_RemoteErrorsCaught == raised # "ServerError"

RECURSIVE MulAdd10(_, _, _)
MulAdd10(words, i, carry) ==
    IF i = 0 THEN words
    ELSE LET cur == words[i] * 10 + carry
         IN  MulAdd10([words EXCEPT ![i] = cur % WordBase], i - 1, cur \div WordBase)

\* the eight words whose decimal text is digits: acc holds the value of the
\* characters before the i-th
RECURSIVE FromDec(_, _, _)
FromDec(digits, i, acc) ==
    IF i > Len(digits) THEN acc
    ELSE LET next == MulAdd10(acc, 8, DigitValue(digits[i]))
         IN  IF Len(next) = 8 THEN FromDec(digits, i + 1, next) ELSE <<>>

\* the decimal text of the integer of the UUID uuid4 makes of random
UuidText(random) == IntStr(uuid4(random))

\* C7: generate_mrn returns exactly 9 characters, each a decimal digit: the
\* first 9 characters of the decimal text of the version-4 UUID's integer.
C7_MrnIsNineDigits ==
    last.op = "generate_mrn"
    => /\ Len(last.result) = 9
       /\ \A i \in 1..Len(last.result) : IsDigit(last.result[i])
       /\ uuid4(last.random)[4] \div 4096 = 4
       /\ AllDigits(UuidText(last.random))
       /\ UuidText(last.random)[1] # "0"
       /\ FromDec(UuidText(last.random), 1, <<0, 0, 0, 0, 0, 0, 0, 0>>) = uuid4(last.random)
       /\ last.result = SubSeq(UuidText(last.random), 1, 9)

\* the smallest version-4 UUID: every random bit 0
C7_Witness ==
    /\ last.op = "generate_mrn"
    /\ last.random = <<0, 0, 0, 0, 0, 0, 0, 0>>
    /\ last.result = <<"3", "0", "2", "2", "4", "0", "6", "7", "8">>

\* the k-th anniversary of birth b is on or before date now
AnniversaryReached(b, k, now) == DateLeq(MkDate(b.y + k, b.m, b.d), now)

\* C8: calculate_age is today's year minus the birth year, minus 1 exactly
\* when today's (month, day) is strictly before the birth (month, day): the
\* number of anniversaries reached, the birthday itself counted, and never
\* negative for a birthdate not after today.  2000-06-15 gives 23 on
\* 2024-06-14 and 24 on 2024-06-15.
C8_WholeYears ==
    (last.op = "calculate_age" /\ raised = "")
    => LET b == strptime(last.birthdate)
           before == today.m < b.m \/ (today.m = b.m /\ today.d < b.d)
       IN  /\ last.age = today.y - b.y - (IF before THEN 1 ELSE 0)
           /\ DateLeq(b, today)
                => /\ last.age >= 0
                   /\ last.age = Cardinality({k \in 1..(today.y - b.y + 1) :
                                                  AnniversaryReached(b, k, today)})
           /\ (last.birthdate = strftime(MkDate(2000, 6, 15)) /\ today = MkDate(2024, 6, 14))
                => last.age = 23
           /\ (last.birthdate = strftime(MkDate(2000, 6, 15)) /\ today = MkDate(2024, 6, 15))
                => last.age = 24

C8_Witness ==
    /\ last.op = "calculate_age"
    /\ last.birthdate = strftime(MkDate(2000, 6, 15))
    /\ today = MkDate(2024, 6, 15)
    /\ last.age = 24

\* C9: 'Create Patient' pressed with every field filled while the server
\* fails the create ends without an uncaught exception and sends no search.
C9_AbsentResultGuarded ==
    (/\ last.op = "app_create"
     /\ last.first_name # "" /\ last.last_name # ""
     /\ last.create # "ok")
    => /\ raised = ""
       /\ \A i \in 1..Len(reqs) : reqs[i].kind # "search"

\* C10: when the search returns one or more resources, exactly one summary
\* is shown, built from the first resource of the list: its id, the first
\* given name of its first name entry, its family name and its birth date,
\* "Not provided" standing for a missing part, with the searched MRN.
C10_SummaryOfFirstMatch ==
    (last.op = "verify" /\ last.search = "ok" /\ last.found # <<>>)
    => /\ raised = ""
       /\ ui.error = ""
       /\ ui.success = FoundMsg
       /\ Len(ui.json) = 1
       /\ LET first == store[last.found[1]]
              shown == ui.json[1]
          IN  /\ shown.MRN = last.mrn
              /\ shown.RecordID = first.id
              /\ shown.FirstName =
                    (IF first.name = <<>> \/ first.name[1].given = <<>>
                     THEN "Not provided" ELSE first.name[1].given[1])
              /\ shown.LastName =
                    (IF first.name = <<>> \/ first.name[1].family = ""
                     THEN "Not provided" ELSE first.name[1].family)
              /\ shown.DateOfBirth =
                    (IF first.birthDate = None THEN <<"Not provided">> ELSE first.birthDate)

\* two matches, the one listed first without a name
C10_Witness ==
    /\ last.op = "verify"
    /\ last.search = "ok"
    /\ Len(last.found) = 2
    /\ Len(ui.json) = 1
    /\ ui.json[1].FirstName = "Not provided"
    /\ ui.json[1].RecordID = last.found[1]

=============================================================================
